---------------------------- MODULE Spec2Model ----------------------------
(***************************************************************************)
(* Model of dataverse_rest_api.client.DataverseClient: the in-memory       *)
(* token state, the authenticate() protocol against the identity provider, *)
(* and the authenticated HTTP operations.                                  *)
(*                                                                         *)
(* Python values are modelled as follows.  A str is a tuple of one-letter  *)
(* strings (so "" is << >>).  An Optional value is a tuple of length 0     *)
(* (None) or 1 (the value).  A dict is a record with the set of its keys   *)
(* in the field "keys" and one field per possible key.                     *)
(***************************************************************************)
EXTENDS Integers, Sequences, FiniteSets, TLC

VARIABLES
    now,          \* time.time(), in seconds
    mem,          \* [token, token_type, expires_at]: self._token, self._token_type, self._expires_at
    cached,       \* the persisted token cache at cache_path exists and holds an account
    pc,           \* "idle"; "ensure", "request": inside an API operation; "done": an
                  \* operation has just ended and its caller looks at the outcome
    op,           \* the running (or just ended) public operation
    ensuresLeft,  \* calls of _ensure_authenticated() the running operation still makes
    extra,        \* Optional: the argument the running operation passes to _headers()
    usableAtStart,\* _is_token_valid() when the operation was called
    authRuns,     \* runs of authenticate() inside the operation
    lastAuth,     \* Optional: the run of authenticate() the step just taken made
    outcome,      \* how the operation ended: "ok" or the exception it raised
    value,        \* Optional: the value the operation returned
    sent,         \* Optional: the headers of the HTTP request the operation issued
    status,       \* Optional: the status code of the response to it
    stale,        \* the held token was in memory before the last reset() began
    afterReset    \* reset() has been called

vars == <<now, mem, cached, pc, op, ensuresLeft, extra, usableAtStart,
          authRuns, lastAuth, outcome, value, sent, status, stale, afterReset>>

-----------------------------------------------------------------------------
(* Bounds of the model *)

\* seconds the clock is followed after the construction, and again after the
\* long step to the end of a default lifetime
MaxSlack == 3

(* Program constants *)

\* the safety margin of _is_token_valid
MARGIN == 60
\* result.get("expires_in", 3600)
DEFAULT_EXPIRES_IN == 3600

\* how far the clock moves in one step: one second, or up to the last usable
\* second of a token with the default lifetime
LongStep == DEFAULT_EXPIRES_IN - MARGIN - 1
TickSteps == {1, LongStep}

\* the instants the model follows
Times == { 1 + a + b * LongStep : a \in 0..MaxSlack, b \in 0..1 }

-----------------------------------------------------------------------------
(* Python values *)

None == << >>
Some(v) == <<v>>
IsNone(o) == Len(o) = 0

Upper == <<"A","B","C","D","E","F","G","H","I","J","K","L","M",
           "N","O","P","Q","R","S","T","U","V","W","X","Y","Z">>
LowerLetters == <<"a","b","c","d","e","f","g","h","i","j","k","l","m",
                  "n","o","p","q","r","s","t","u","v","w","x","y","z">>

\* str.lower() on one character
LowerChar(c) ==
    IF \E i \in 1..Len(Upper) : Upper[i] = c
    THEN LowerLetters[CHOOSE i \in 1..Len(Upper) : Upper[i] = c]
    ELSE c

\* str.lower()
Lower(s) == [i \in 1..Len(s) |-> LowerChar(s[i])]

Str_bearer == <<"b","e","a","r","e","r">>
Str_Bearer == <<"B","e","a","r","e","r">>
Str_mac    == <<"m","a","c">>
Str_BearerSp == <<"B","e","a","r","e","r"," ">>
Str_Basic  == <<"B","a","s","i","c"," ","x">>

-----------------------------------------------------------------------------
(* The identity provider (msal.PublicClientApplication), as the client sees it *)

\* a dict returned by acquire_token_silent / acquire_token_by_device_flow
Dict(ks, at, tt, ei) ==
    [isNone |-> FALSE, keys |-> ks,
     access_token |-> IF "access_token" \in ks THEN at ELSE << >>,
     token_type   |-> IF "token_type" \in ks THEN tt ELSE << >>,
     expires_in   |-> IF "expires_in" \in ks THEN ei ELSE 0]

NoneResult == [isNone |-> TRUE, keys |-> {}, access_token |-> << >>,
               token_type |-> << >>, expires_in |-> 0]
EmptyDict == Dict({}, << >>, << >>, 0)

Str_t1 == <<"t","1">>
AllKeys == {"access_token", "token_type", "expires_in"}

\* the non-empty dicts the provider may return: an error, each key missing in
\* turn, a token type other than bearer, an empty access token, and lifetimes
\* of MARGIN seconds and one more
Dicts ==
    { Dict({"error"}, << >>, << >>, 0),
      Dict(AllKeys \ {"access_token"}, << >>, Str_Bearer, MARGIN + 1),
      Dict(AllKeys \ {"token_type"}, Str_t1, << >>, MARGIN + 1),
      Dict(AllKeys \ {"expires_in"}, Str_t1, Str_Bearer, 0),
      Dict(AllKeys, Str_t1, Str_mac, MARGIN + 1),
      Dict(AllKeys, Str_t1, Str_bearer, MARGIN + 1),
      Dict(AllKeys, Str_t1, Str_Bearer, MARGIN),
      Dict(AllKeys, Str_t1, Str_Bearer, MARGIN + 1),
      Dict(AllKeys, << >>, Str_Bearer, MARGIN + 1) }

\* bool(result)
Truthy(r) == ~r.isNone /\ r.keys # {}

\* what the provider does in one run of authenticate(): what each call it may
\* receive does (fields of calls the run cannot reach are fixed)
Script(acc, sil, sres, fl, dev, dres) ==
    [accounts |-> acc, silent |-> sil, silentResult |-> sres,
     flow |-> fl, device |-> dev, deviceResult |-> dres]

FlowScripts(acc, sil, sres) ==
    { Script(acc, sil, sres, fl, "returns", NoneResult) :
          fl \in {"raise", "no_user_code", "no_message"} }
    \cup { Script(acc, sil, sres, "ok", "raise", NoneResult) }
    \cup { Script(acc, sil, sres, "ok", "returns", d) : d \in Dicts \cup {NoneResult} }

\* the provider's behaviours when the token cache holds no account
ScriptsNoAccount ==
    { Script("raise", "returns", NoneResult, "ok", "returns", NoneResult) }
    \cup FlowScripts("ok", "returns", NoneResult)

\* the provider's behaviours when the token cache holds an account
ScriptsWithAccount ==
    { Script("raise", "returns", NoneResult, "ok", "returns", NoneResult),
      Script("ok", "raise", NoneResult, "ok", "returns", NoneResult) }
    \cup { Script("ok", "returns", d, "ok", "returns", NoneResult) : d \in Dicts }
    \cup FlowScripts("ok", "returns", NoneResult)
    \cup FlowScripts("ok", "returns", EmptyDict)

Scripts(hasAccount) == IF hasAccount THEN ScriptsWithAccount ELSE ScriptsNoAccount

-----------------------------------------------------------------------------
(* DataverseClient: token state and authenticate() *)

\* a variant of Cleared that keeps the token state
Cleared_Keep(m) == m
\* the fields _initialise_auth_context sets before it authenticates
Cleared(m) == [token |-> None, token_type |-> None, expires_at |-> None]

\* _is_token_valid: bool(_token and _expires_at and time.time() < _expires_at - 60)
is_token_valid(m, t) ==
    /\ ~IsNone(m.token) /\ m.token[1] # << >>
    /\ ~IsNone(m.expires_at) /\ m.expires_at[1] # 0
    /\ t < m.expires_at[1] - MARGIN

\* a step of the try block of authenticate(): calls made so far, the position
\* of the call that raised (0: none), and the local variable result
Step(cs, at, res) == [calls |-> cs, raisedAt |-> at, result |-> res]

\* authenticate(), "1) Try silent"
TrySilent(s, hasAccount) ==
    IF s.accounts = "raise" THEN Step(<<"get_accounts">>, 1, NoneResult)
    ELSE IF ~hasAccount THEN Step(<<"get_accounts">>, 0, NoneResult)
    ELSE IF s.silent = "raise"
         THEN Step(<<"get_accounts", "acquire_token_silent">>, 2, NoneResult)
         ELSE Step(<<"get_accounts", "acquire_token_silent">>, 0, s.silentResult)

\* a variant that falls back to the device flow whatever the silent result
NeedsDeviceFlow_Always(st) == st.raisedAt = 0
\* a variant that falls back to the device flow after a failed call too
NeedsDeviceFlow_AfterFailure(st) == ~Truthy(st.result)
\* authenticate(): "if not result", reached only when nothing raised before
NeedsDeviceFlow(st) == st.raisedAt = 0 /\ ~Truthy(st.result)

\* authenticate(), "2) Fallback to device code": a flow without "user_code" or
\* without "message" raises before anything is displayed
DeviceFlow(s, st) ==
    LET c1 == Append(st.calls, "initiate_device_flow")
        c2 == Append(c1, "logger.info")
        c3 == Append(c2, "acquire_token_by_device_flow")
        first(n) == IF st.raisedAt # 0 THEN st.raisedAt ELSE n
    IN  IF s.flow \in {"raise", "no_user_code", "no_message"}
        THEN Step(c1, first(Len(c1)), st.result)
        ELSE IF s.device = "raise" THEN Step(c3, first(Len(c3)), st.result)
        ELSE Step(c3, first(0), s.deviceResult)

\* the try block of authenticate()
Acquire(s, hasAccount) ==
    LET st == TrySilent(s, hasAccount)
    IN  IF NeedsDeviceFlow(st) THEN DeviceFlow(s, st) ELSE st

\* result.get("token_type", "")
GetTokenType(r) == IF "token_type" \in r.keys THEN r.token_type ELSE << >>

\* result.get("expires_in", 3600)
GetExpiresIn(r) == IF "expires_in" \in r.keys THEN r.expires_in ELSE DEFAULT_EXPIRES_IN

\* the two checks of authenticate() after the try block
Accepts(r) ==
    /\ Truthy(r) /\ "access_token" \in r.keys
    /\ Lower(GetTokenType(r)) = Str_bearer

\* authenticate(): the run, how it ends, and the token state it leaves
authenticate(m, t, s, hasAccount) ==
    LET s0 == TrySilent(s, hasAccount)
        st == Acquire(s, hasAccount)
        ok == st.raisedAt = 0 /\ Accepts(st.result)
    IN  [run |-> [calls |-> st.calls, raisedAt |-> st.raisedAt, result |-> st.result,
                  accounts |-> IF s.accounts = "raise" THEN "raised"
                               ELSE IF hasAccount THEN "found" ELSE "empty",
                  silent |-> IF Len(s0.calls) = 2 /\ s0.raisedAt = 0
                             THEN Some(s0.result) ELSE None,
                  outcome |-> IF ok THEN "ok" ELSE "AuthenticationError"],
         mem |-> IF ok
                 THEN [token |-> Some(st.result.access_token),
                       token_type |-> IF "token_type" \in st.result.keys
                                      THEN Some(st.result.token_type) ELSE None,
                       expires_at |-> Some(t + GetExpiresIn(st.result))]
                 ELSE m]

\* the persisted token cache after a run: a completed exchange that yields an
\* access token stores the account
CacheAfter(c, run) ==
    \/ c
    \/ /\ run.raisedAt = 0
       /\ \E i \in 1..Len(run.calls) : run.calls[i] = "acquire_token_by_device_flow"
       /\ "access_token" \in run.result.keys

-----------------------------------------------------------------------------
(* DataverseClient: the HTTP operations *)

ApiOps == {"query", "create", "delete_record", "patch_record", "send_request"}

\* calls of _ensure_authenticated() an operation makes before it returns or
\* issues its request: get_access_token 1; _headers 1 and, through
\* get_access_token, 1 more; send_request 1 and _headers' 2
EnsureCalls(o) ==
    CASE o = "get_access_token" -> 1
      [] o = "send_request" -> 3
      [] OTHER -> 2

\* a dict of headers: a function from header names to values
Hdr(k, v) == [x \in {k} |-> v]

\* the argument the CRUD operations pass to _headers()
ExtraOf(o) ==
    CASE o = "query" -> None
      [] o = "create" -> Some(Hdr("Content-Type", "application/json"))
      [] o = "delete_record" -> Some(Hdr("If-Match", "*"))
      [] o = "patch_record" ->
            Some([x \in {"Content-Type", "If-Match"} |->
                    IF x = "If-Match" THEN "*" ELSE "application/json"])

\* extra_headers a caller may pass to send_request
ExtraChoices ==
    { None,
      Some(Hdr("Prefer", "return=representation")),
      Some(Hdr("Authorization", Str_Basic)) }

\* the argument of _headers() in each operation
ExtrasOf(o) ==
    IF o = "send_request" THEN ExtraChoices
    ELSE IF o = "get_access_token" THEN {None}
    ELSE {ExtraOf(o)}

\* dict.update
Update(h, x) ==
    [k \in DOMAIN h \cup DOMAIN x |-> IF k \in DOMAIN x THEN x[k] ELSE h[k]]

\* _headers, after its _ensure_authenticated(): tok is what get_access_token() returned
headers(tok, x) ==
    LET h == [k \in {"Authorization", "Accept", "OData-Version"} |->
                CASE k = "Authorization" -> Str_BearerSp \o tok
                  [] k = "Accept" -> "application/json"
                  [] k = "OData-Version" -> "4.0"]
    IN  IF ~IsNone(x) /\ DOMAIN x[1] # {} THEN Update(h, x[1]) ELSE h

\* what the REST API (or the network) answers
EntityIds == { None, Some(<<"c","(","7",")">>), Some(<<"7">>) }
Statuses == {200, 304, 404}
Responses ==
    { [failed |-> TRUE, status |-> 0, entity_id |-> None, json |-> FALSE] }
    \cup { [failed |-> FALSE, status |-> st, entity_id |-> e, json |-> j] :
             st \in Statuses, e \in EntityIds, j \in BOOLEAN }

\* requests.Response.raise_for_status
RaisesForStatus(st) == 400 <= st /\ st < 600

\* _request: the exception it re-raises, or "ok"
request(r) ==
    IF r.failed THEN "ConnectionError"
    ELSE IF RaisesForStatus(r.status) THEN "HTTPError"
    ELSE "ok"

RECURSIVE AfterLast(_, _)
\* s.split(c)[-1]
AfterLast(s, c) ==
    IF s = << >> THEN << >>
    ELSE IF \E i \in 1..Len(s) : s[i] = c
         THEN AfterLast(SubSeq(s, (CHOOSE i \in 1..Len(s) : s[i] = c) + 1, Len(s)), c)
         ELSE s

RECURSIVE RStrip(_, _)
\* s.rstrip(c)
RStrip(s, c) ==
    IF s # << >> /\ s[Len(s)] = c THEN RStrip(SubSeq(s, 1, Len(s) - 1), c) ELSE s

\* what an operation does with the response _request returned
Returned(o, r) ==
    CASE o = "query" ->
            IF r.json THEN [outcome |-> "ok", value |-> Some([kind |-> "json"])]
            ELSE [outcome |-> "JSONDecodeError", value |-> None]
      [] o = "create" ->
            IF IsNone(r.entity_id) \/ r.entity_id[1] = << >>
            THEN [outcome |-> "RuntimeError", value |-> None]
            ELSE [outcome |-> "ok",
                  value |-> Some([kind |-> "id",
                                  v |-> RStrip(AfterLast(r.entity_id[1], "("), ")")])]
      [] o \in {"delete_record", "patch_record"} ->
            [outcome |-> "ok", value |-> Some([kind |-> "True"])]
      [] o = "send_request" ->
            [outcome |-> "ok", value |-> Some([kind |-> "response", v |-> r.status])]

-----------------------------------------------------------------------------
(* The state machine.  The request's method, URL and body are passed through *)
(* to requests.request unchanged and are left out.                         *)

\* the constructor: __init__ ends in _initialise_auth_context(), whose
\* authenticate() must not raise for a client to exist
Init ==
    /\ now = 1
    /\ \E c \in BOOLEAN : \E s \in Scripts(c) :
         LET a == authenticate(Cleared(None), 1, s, c)
         IN  /\ a.run.outcome = "ok"
             /\ mem = a.mem
             /\ cached = CacheAfter(c, a.run)
             /\ lastAuth = Some(a.run)
    /\ pc = "done"
    /\ op = "__init__"
    /\ ensuresLeft = 0
    /\ extra = None
    /\ usableAtStart = FALSE
    /\ authRuns = 1
    /\ outcome = "ok"
    /\ value = None
    /\ sent = None
    /\ status = None
    /\ stale = FALSE
    /\ afterReset = FALSE

\* time passes
Tick(d) ==
    /\ pc # "done"
    /\ now + d \in Times
    /\ now' = now + d
    /\ lastAuth' = None
    /\ UNCHANGED <<mem, cached, pc, op, ensuresLeft, extra, usableAtStart, authRuns,
                   outcome, value, sent, status, stale, afterReset>>

\* the caller has seen how the operation ended
Idle ==
    /\ pc = "done"
    /\ pc' = "idle"
    /\ op' = "none"
    /\ usableAtStart' = FALSE
    /\ authRuns' = 0
    /\ lastAuth' = None
    /\ outcome' = "none"
    /\ value' = None
    /\ sent' = None
    /\ status' = None
    /\ UNCHANGED <<now, mem, cached, ensuresLeft, extra, stale, afterReset>>

\* a caller enters get_access_token or one of the API operations
Call(o, x) ==
    /\ pc = "idle"
    /\ pc' = "ensure"
    /\ op' = o
    /\ extra' = x
    /\ ensuresLeft' = EnsureCalls(o)
    /\ usableAtStart' = is_token_valid(mem, now)
    /\ UNCHANGED <<now, mem, cached, authRuns, lastAuth, outcome, value, sent, status,
                   stale, afterReset>>

\* after an _ensure_authenticated() that did not raise, with m the token state:
\* the next one, or get_access_token's assert and return, or the request
Proceed(m) ==
    IF ensuresLeft > 1
    THEN /\ pc' = "ensure"
         /\ ensuresLeft' = ensuresLeft - 1
         /\ UNCHANGED <<extra, outcome, value>>
    ELSE /\ ensuresLeft' = 0
         /\ IF op = "get_access_token"
            THEN /\ pc' = "done"
                 /\ outcome' = IF IsNone(m.token) THEN "AssertionError" ELSE "ok"
                 /\ value' = IF IsNone(m.token) THEN None
                             ELSE Some([kind |-> "token", v |-> m.token[1]])
                 /\ UNCHANGED extra
            ELSE /\ pc' = "request"
                 /\ UNCHANGED <<extra, outcome, value>>

\* _ensure_authenticated() with a valid token
EnsureValid ==
    /\ pc = "ensure"
    /\ is_token_valid(mem, now)
    /\ Proceed(mem)
    /\ lastAuth' = None
    /\ UNCHANGED <<now, mem, cached, op, usableAtStart, authRuns, sent, status,
                   stale, afterReset>>

\* a variant in which the operation goes on after a failed authenticate()
Propagates_Swallowed(run) == FALSE
\* an AuthenticationError of authenticate() leaves _ensure_authenticated() and
\* the operation that called it
Propagates(run) == run.outcome # "ok"

\* _ensure_authenticated() without a valid token: authenticate()
EnsureAuthenticate(s) ==
    /\ pc = "ensure"
    /\ ~is_token_valid(mem, now)
    /\ LET a == authenticate(mem, now, s, cached)
       IN  /\ mem' = a.mem
           /\ cached' = CacheAfter(cached, a.run)
           /\ lastAuth' = Some(a.run)
           /\ authRuns' = authRuns + 1
           /\ stale' = IF a.run.outcome = "ok" THEN FALSE ELSE stale
           /\ IF Propagates(a.run)
              THEN /\ pc' = "done"
                   /\ outcome' = "AuthenticationError"
                   /\ ensuresLeft' = 0
                   /\ extra' = None
                   /\ UNCHANGED value
              ELSE Proceed(a.mem)
    /\ UNCHANGED <<now, op, usableAtStart, sent, status, afterReset>>

\* the request of an API operation: _headers() builds the headers around the
\* token get_access_token() returned, _request() sends, the operation returns
Request(r) ==
    /\ pc = "request"
    /\ pc' = "done"
    /\ extra' = None
    /\ lastAuth' = None
    /\ IF IsNone(mem.token)
       THEN /\ outcome' = "AssertionError"
            /\ UNCHANGED <<value, sent, status>>
       ELSE /\ sent' = Some(headers(mem.token[1], extra))
            /\ status' = IF r.failed THEN None ELSE Some(r.status)
            /\ IF request(r) # "ok"
               THEN /\ outcome' = request(r)
                    /\ UNCHANGED value
               ELSE /\ outcome' = Returned(op, r).outcome
                    /\ value' = Returned(op, r).value
    /\ UNCHANGED <<now, mem, cached, op, ensuresLeft, usableAtStart, authRuns,
                   stale, afterReset>>

\* a caller calls authenticate()
Authenticate(s) ==
    /\ pc = "idle"
    /\ pc' = "done"
    /\ LET a == authenticate(mem, now, s, cached)
       IN  /\ mem' = a.mem
           /\ cached' = CacheAfter(cached, a.run)
           /\ lastAuth' = Some(a.run)
           /\ outcome' = a.run.outcome
           /\ stale' = IF a.run.outcome = "ok" THEN FALSE ELSE stale
    /\ op' = "authenticate"
    /\ usableAtStart' = is_token_valid(mem, now)
    /\ authRuns' = 1
    /\ UNCHANGED <<now, ensuresLeft, extra, value, sent, status, afterReset>>

\* a caller calls reset(): os.remove(cache_path), which raises when there is
\* no file, then _initialise_auth_context() with a fresh, empty token cache
Reset(s) ==
    /\ pc = "idle"
    /\ pc' = "done"
    /\ op' = "reset"
    /\ usableAtStart' = is_token_valid(mem, now)
    /\ afterReset' = TRUE
    /\ IF ~cached
       THEN /\ outcome' = "FileNotFoundError"
            /\ stale' = ~IsNone(mem.token)
            /\ UNCHANGED <<mem, cached, lastAuth, authRuns>>
       ELSE LET m0 == Cleared(mem)
                a == authenticate(m0, now, s, FALSE)
            IN  /\ mem' = a.mem
                /\ cached' = CacheAfter(FALSE, a.run)
                /\ lastAuth' = Some(a.run)
                /\ authRuns' = 1
                /\ outcome' = a.run.outcome
                /\ stale' = IF a.run.outcome = "ok" THEN FALSE ELSE ~IsNone(m0.token)
    /\ UNCHANGED <<now, ensuresLeft, extra, value, sent, status>>

Next ==
    \/ \E d \in TickSteps : Tick(d)
    \/ Idle
    \/ \E o \in ApiOps \cup {"get_access_token"} : \E x \in ExtrasOf(o) : Call(o, x)
    \/ EnsureValid
    \/ \E s \in Scripts(cached) : EnsureAuthenticate(s)
    \/ \E r \in Responses : Request(r)
    \/ \E s \in Scripts(cached) : Authenticate(s)
    \/ \E s \in ScriptsNoAccount : Reset(s)

Spec == Init /\ [][Next]_vars

-----------------------------------------------------------------------------
(* The claims *)

Count(calls, c) == Cardinality({ i \in 1..Len(calls) : calls[i] = c })

ReturnedToken ==
    pc = "done" /\ op = "get_access_token" /\ ~IsNone(value)

\* C1: whenever get_access_token() returns a value, the returned token is
\* non-empty and the held token is usable at that moment: now < expires_at - 60.
C1_ReturnedTokenUsable ==
    ReturnedToken =>
        /\ value[1].v # << >>
        /\ ~IsNone(mem.expires_at)
        /\ now < mem.expires_at[1] - MARGIN

\* the result has a non-empty access_token and a token_type equal to "bearer"
\* ignoring case
WellFormed(r) ==
    /\ "access_token" \in r.keys /\ r.access_token # << >>
    /\ "token_type" \in r.keys /\ Lower(r.token_type) = Str_bearer

\* C2: authenticate() accepts a result only if it has a non-empty access_token
\* and a token_type equal to "bearer" ignoring case; for every other result it
\* raises AuthenticationError and afterwards no Session Token is set.
C2_AcceptsOnlyWellFormedElseNoToken ==
    ~IsNone(lastAuth) =>
        /\ lastAuth[1].outcome = "ok" => WellFormed(lastAuth[1].result)
        /\ ~WellFormed(lastAuth[1].result) =>
              /\ lastAuth[1].outcome = "AuthenticationError"
              /\ IsNone(mem.token)

\* C3: a run of authenticate() initiates the device-code flow exactly once
\* when get_accounts() returns no account or silent acquisition returns a
\* falsy result, and not at all (no flow request, no message displayed, no
\* polling) when an account is cached and silent acquisition returns a result.
C3_DeviceFlowOnceOrNever ==
    ~IsNone(lastAuth) =>
        LET r == lastAuth[1]
        IN  /\ (r.accounts = "empty" \/ (~IsNone(r.silent) /\ ~Truthy(r.silent[1])))
                 => Count(r.calls, "initiate_device_flow") = 1
            /\ (r.accounts = "found" /\ ~IsNone(r.silent) /\ Truthy(r.silent[1]))
                 => /\ Count(r.calls, "initiate_device_flow") = 0
                    /\ Count(r.calls, "logger.info") = 0
                    /\ Count(r.calls, "acquire_token_by_device_flow") = 0

\* C3 witness: an account was cached, silent acquisition returned an empty
\* dict, and the device flow was initiated and completed.
C3_Witness ==
    /\ ~IsNone(lastAuth)
    /\ lastAuth[1].accounts = "found"
    /\ ~IsNone(lastAuth[1].silent) /\ lastAuth[1].silent[1] = EmptyDict
    /\ Count(lastAuth[1].calls, "initiate_device_flow") = 1
    /\ lastAuth[1].outcome = "ok"

\* C4: whenever a Session Token is held, _is_token_valid() is true if and only
\* if now < expires_at - 60.
C4_ValidIffBeforeMargin ==
    ~IsNone(mem.expires_at) =>
        (is_token_valid(mem, now) <=> now < mem.expires_at[1] - MARGIN)

C6_StandardHeadersOnEveryRequest ==
    ~IsNone(sent) =>
        /\ sent[1]["Authorization"] = Str_BearerSp \o mem.token[1]
        /\ sent[1]["Accept"] = "application/json"
        /\ sent[1]["OData-Version"] = "4.0"

\* C7: when query, patch_record or delete_record receives a non-2xx status,
\* the operation ends with an HTTP error and returns no value.
C7_Non2xxIsHttpError ==
    (/\ pc = "done" /\ op \in {"query", "patch_record", "delete_record"}
     /\ ~IsNone(status) /\ status[1] \notin 200..299)
        => (outcome = "HTTPError" /\ IsNone(value))

ProviderCalls == {"get_accounts", "acquire_token_silent",
                  "initiate_device_flow", "acquire_token_by_device_flow"}

\* C8: a run of authenticate() in which a provider call fails ends with
\* AuthenticationError, the failed call is the last call of the run, and no
\* provider call is made more than once in a run.
C8_FailureIsTerminalNoRetry ==
    ~IsNone(lastAuth) =>
        LET r == lastAuth[1]
        IN  /\ r.raisedAt # 0 =>
                  /\ r.outcome = "AuthenticationError"
                  /\ r.raisedAt = Len(r.calls)
                  /\ outcome = "AuthenticationError"
            /\ \A c \in ProviderCalls : Count(r.calls, c) <= 1

\* C8 witness: acquire_token_silent raised, and the run ended there.
C8_Witness ==
    /\ ~IsNone(lastAuth)
    /\ lastAuth[1].raisedAt = 2
    /\ lastAuth[1].calls = <<"get_accounts", "acquire_token_silent">>
    /\ outcome = "AuthenticationError"

\* C9: in an API operation, a failed authentication ends the operation with
\* AuthenticationError and no HTTP request is sent; no request is sent while
\* calls of _ensure_authenticated() remain.
C9_NoRequestBeforeAuthentication ==
    /\ (op \in ApiOps /\ ~IsNone(lastAuth) /\ lastAuth[1].outcome # "ok")
          => (pc = "done" /\ outcome = "AuthenticationError" /\ IsNone(sent))
    /\ (op \in ApiOps /\ outcome = "AuthenticationError") => IsNone(sent)
    /\ ~IsNone(sent) => (op \in ApiOps /\ ensuresLeft = 0)

\* C9 witness: an API operation found the token unusable, authentication
\* failed, and the operation ended with AuthenticationError.
C9_Witness ==
    /\ pc = "done" /\ op \in ApiOps /\ ~usableAtStart
    /\ outcome = "AuthenticationError" /\ IsNone(sent)

\* C10: one operation runs authenticate() at most once, and not at all when
\* the held token is usable at the start of the operation.
C10_AtMostOneAuthentication ==
    (op \in ApiOps \cup {"get_access_token"}) =>
        /\ authRuns <= 1
        /\ usableAtStart => authRuns = 0

=============================================================================
